---- MODULE Spec2Model ----
(***************************************************************************)
(* Brinson performance-attribution decomposition of                        *)
(* 13_portfolio-evaluation.ipynb (function brinson_decomposition and the   *)
(* example cell that builds df_brinson and calls it).                      *)
(*                                                                         *)
(* Arithmetic is exact.  Numbers are decimal fixed point: a weight is an   *)
(* integer number of tenths (0.60 is 6, 1.0 is 10), a return an integer    *)
(* number of hundredths (0.08 is 8), and every product of a weight and a   *)
(* return, hence every field of the result, an integer number of           *)
(* thousandths (0.074 is 74).                                              *)
(***************************************************************************)
EXTENDS Integers, Sequences, FiniteSets, TLC

VARIABLES df, outcome, results, relation, prev_df, prev_results,
          base_df, base_results,
          call_df, call_pc, call_locals, call_outcome, call_results,
          rolling, kernel, blend

vars == <<df, outcome, results, relation, prev_df, prev_results,
          base_df, base_results,
          call_df, call_pc, call_locals, call_outcome, call_results,
          rolling, kernel, blend>>

(* The other cells: the rolling CAPM loop, the kernel of the               *)
(* diversification notebook, the blended-portfolio cell.                   *)
sideVars == <<rolling, kernel, blend>>

(* The notebook cell and its calls, each run in one step. *)
cellVars == <<df, outcome, results, relation, prev_df, prev_results,
              base_df, base_results>>

(* Calls that run statement by statement, side by side. *)
callVars == <<call_df, call_pc, call_locals, call_outcome, call_results>>

(* The table and result of the call before the previous one. *)
baseVars == <<base_df, base_results>>

(* Longest segment table built row by row. *)
MaxLen == 2

(* Longest segment table built for the calls that are compared with each other. *)
MaxRelLen == 2

(* Number of calls that run side by side. *)
NumCalls == 2

(* The scale of the fixed-point encoding: weight 1.0 and return 1.0. *)
FixedPoint == [weight |-> 10, return |-> 100]

(* Weights the caller may put in a row: negative, inside [0,1], exactly 1, above 1. *)
WeightValues == {-5, 5, 10, 15}

(* Returns the caller may put in a row. *)
ReturnValues == {-5, 10}

(* Weights of the tables built for the calls that are compared with each other. *)
RelWeightValues == {-5, 15}

(* The constants the caller scales the weights by. *)
ScaleFactors == {-1, 3}

(* The constants the caller adds to all returns, in hundredths. *)
ShiftConstants == {-3, 4}

(* The second weight assignment of a sum: portfolio and benchmark weight of a row. *)
AddendWeights == {<<5, -5>>, <<15, 5>>}

(* ---------------- pandas: DataFrame, Series arithmetic ---------------- *)

(* A DataFrame with the index AssetClass and the four columns the function reads. *)
EmptyFrame == [index |-> <<>>, w_p |-> <<>>, r_p |-> <<>>, w_b |-> <<>>, r_b |-> <<>>]

(* pd.DataFrame(data).set_index('AssetClass') for column lists of equal length. *)
DataFrame(data) ==
    [index |-> data.AssetClass, w_p |-> data.w_p, r_p |-> data.r_p,
     w_b |-> data.w_b, r_b |-> data.r_b]

(* float('nan'): a value apart from every number the model computes. *)
NaN == -(2 ^ 30)

(* float * float and float - float: NaN if an operand is NaN. *)
FloatMul(x, y) == IF x = NaN \/ y = NaN THEN NaN ELSE x * y
FloatSub(x, y) == IF x = NaN \/ y = NaN THEN NaN ELSE x - y

(* Series * Series of two columns of one frame: same index, element by element. *)
SeriesMul(a, b) == [i \in 1..Len(a) |-> FloatMul(a[i], b[i])]

(* Series - Series of two columns of one frame. *)
SeriesSub(a, b) == [i \in 1..Len(a) |-> FloatSub(a[i], b[i])]

(* numpy-style sum: NaN as soon as one element is NaN. *)
RECURSIVE SeriesSum_propagating_nan(_)
SeriesSum_propagating_nan(s) ==
    IF Len(s) = 0 THEN 0
    ELSE IF s[1] = NaN \/ SeriesSum_propagating_nan(Tail(s)) = NaN THEN NaN
    ELSE s[1] + SeriesSum_propagating_nan(Tail(s))

(* A sum that stops one element short. *)
RECURSIVE SeriesSum_without_last(_)
SeriesSum_without_last(s) ==
    IF Len(s) <= 1 THEN 0
    ELSE IF s[1] = NaN THEN SeriesSum_without_last(Tail(s))
    ELSE s[1] + SeriesSum_without_last(Tail(s))

(* Series.sum() with its defaults skipna=True, min_count=0: the sum of the *)
(* elements that are not NaN, 0 if there is none.                          *)
RECURSIVE SeriesSum(_)
SeriesSum(s) ==
    IF Len(s) = 0 THEN 0
    ELSE IF s[1] = NaN THEN SeriesSum(Tail(s))
    ELSE s[1] + SeriesSum(Tail(s))

(* ---------------- brinson_decomposition ---------------- *)

(* r_b computed with the portfolio weights instead of the benchmark weights. *)
r_b_with_portfolio_weights(d) == SeriesSum(SeriesMul(d.w_p, d.r_b))

(* asset_allocation computed without subtracting the benchmark weight. *)
asset_allocation_without_wb(d) == SeriesSum(SeriesMul(d.w_p, d.r_b))

(* selection computed with the portfolio weight. *)
selection_with_portfolio_weight(d) ==
    SeriesSum(SeriesMul(d.w_p, SeriesSub(d.r_p, d.r_b)))

(* selection computed without the benchmark weight. *)
selection_without_weight(d) == SeriesSum(SeriesSub(d.r_p, d.r_b))

(* selection computed without subtracting the benchmark return. *)
selection_without_rb(d) == SeriesSum(SeriesMul(d.w_b, d.r_p))

(* interaction computed without subtracting the benchmark return. *)
interaction_without_rb(d) == SeriesSum(SeriesMul(SeriesSub(d.w_p, d.w_b), d.r_p))

(* total_diff computed with its operands exchanged. *)
total_diff_swapped_operands(rp, rb) == rb - rp

(* df[~df.index.duplicated()]: the rows whose label did not occur in an earlier row. *)
DropDuplicates(d) ==
    LET keep == SelectSeq([i \in 1..Len(d.index) |-> i],
                          LAMBDA i : \A j \in 1..(i - 1) : d.index[j] # d.index[i])
        Col(c) == [k \in 1..Len(keep) |-> c[keep[k]]]
    IN  [index |-> Col(d.index), w_p |-> Col(d.w_p), r_p |-> Col(d.r_p),
         w_b |-> Col(d.w_b), r_b |-> Col(d.r_b)]

(* r_p computed after dropping the rows that repeat a segment label. *)
r_p_dropping_duplicates(d) ==
    SeriesSum(SeriesMul(DropDuplicates(d).w_p, DropDuplicates(d).r_p))

(* r_p = (df['w_p'] * df['r_p']).sum() *)
r_p(d) == SeriesSum(SeriesMul(d.w_p, d.r_p))

(* r_b = (df['w_b'] * df['r_b']).sum() *)
r_b(d) == SeriesSum(SeriesMul(d.w_b, d.r_b))

(* asset_allocation = ((df['w_p'] - df['w_b']) * df['r_b']).sum() *)
asset_allocation(d) == SeriesSum(SeriesMul(SeriesSub(d.w_p, d.w_b), d.r_b))

(* selection = (df['w_b'] * (df['r_p'] - df['r_b'])).sum() *)
selection(d) == SeriesSum(SeriesMul(d.w_b, SeriesSub(d.r_p, d.r_b)))

(* interaction = ((df['w_p'] - df['w_b']) * (df['r_p'] - df['r_b'])).sum() *)
interaction(d) ==
    SeriesSum(SeriesMul(SeriesSub(d.w_p, d.w_b), SeriesSub(d.r_p, d.r_b)))

(* total_diff = r_p - r_b, from the two locals *)
total_diff(rp, rb) == FloatSub(rp, rb)

(* The keys of the returned dict. *)
ResultKeys ==
    {"Portfolio Return", "Benchmark Return", "Asset Allocation",
     "Selection", "Interaction", "Total Difference"}

(* No dict: what `results` holds before the call returns. *)
NoResults == [k \in {} |-> 0]

(* A return statement whose dict lacks the 'Total Difference' entry. *)
return_dict_without_total(rp, rb, aa, se, ia, td) ==
    ("Portfolio Return" :> rp) @@ ("Benchmark Return" :> rb) @@
    ("Asset Allocation" :> aa) @@ ("Selection" :> se) @@
    ("Interaction" :> ia)

(* return {'Portfolio Return': r_p, ..., 'Total Difference': total_diff} *)
return_dict(rp, rb, aa, se, ia, td) ==
    ("Portfolio Return" :> rp) @@ ("Benchmark Return" :> rb) @@
    ("Asset Allocation" :> aa) @@ ("Selection" :> se) @@
    ("Interaction" :> ia) @@ ("Total Difference" :> td)

(* The outcome of a call: a returned value, or the kind of the exception raised. *)
Returned(value) == [kind |-> "return", value |-> value]
Raised(kind) == [kind |-> kind, value |-> NoResults]

(* The six assignments of the function body, in source order. *)
Body(d) ==
    LET rp == r_p(d)
        rb == r_b(d)
        aa == asset_allocation(d)
        se == selection(d)
        ia == interaction(d)
        td == total_diff(rp, rb)
    IN  return_dict(rp, rb, aa, se, ia, td)

(* brinson_decomposition with a guard that rejects weights that are negative, *)
(* above 1 or do not sum to 1.                                                *)
brinson_decomposition_validating_weights(d) ==
    IF \/ \E i \in 1..Len(d.index) :
              \/ d.w_p[i] < 0 \/ d.w_p[i] > FixedPoint.weight
              \/ d.w_b[i] < 0 \/ d.w_b[i] > FixedPoint.weight
       \/ SeriesSum(d.w_p) # FixedPoint.weight
       \/ SeriesSum(d.w_b) # FixedPoint.weight
    THEN Raised("InvalidInput")
    ELSE Returned(Body(d))

(* The columns the body reads with df[...]. *)
Columns == {"w_p", "r_p", "w_b", "r_b"}

(* The function: the body runs to its return statement.  It has no raise   *)
(* statement and no test of its argument, so a call on a frame that has    *)
(* the four columns always returns; df[...] of a column the frame does not *)
(* have raises KeyError before anything is returned.                       *)
brinson_decomposition(d) ==
    IF Columns \subseteq DOMAIN d THEN Returned(Body(d)) ELSE Raised("KeyError")

(* A body that stores the active weights in the caller's table:           *)
(* df['w_p'] = df['w_p'] - df['w_b'].                                      *)
df_after_call_storing_active_weights(d) == [d EXCEPT !.w_p = SeriesSub(d.w_p, d.w_b)]

(* The caller's table when the call ends.  df is passed by reference, but  *)
(* the body only reads it: df[...] occurs on right-hand sides only, every  *)
(* Series operation builds a new Series, and no statement assigns to df,   *)
(* to one of its columns or to a name outside the function.                *)
df_after_call(d) == d

(* ---------------- the example cell ---------------- *)

(* data = {...}: the three asset classes of the example. *)
data ==
    [AssetClass |-> <<"Equity", "Bond", "RealEstate">>,
     w_p |-> <<6, 3, 1>>,
     r_p |-> <<10, 2, 8>>,
     w_b |-> <<5, 4, 1>>,
     r_b |-> <<8, 3, 7>>]

(* df_brinson = pd.DataFrame(data).set_index('AssetClass') *)
df_brinson == DataFrame(data)

(* The frame with portfolio and benchmark columns exchanged. *)
SwapFrame(d) ==
    [index |-> d.index, w_p |-> d.w_b, r_p |-> d.r_b, w_b |-> d.w_p, r_b |-> d.r_p]

(* ---------------- state machine ---------------- *)

(* The rolling CAPM cell before it runs: no series, empty lists. *)
RollingIdle ==
    [n |-> 0, pc |-> "idle", start_idx |-> 0,
     rolling_alphas |-> <<>>, rolling_betas |-> <<>>,
     rolling_alphas_series |-> <<>>, rolling_betas_series |-> <<>>]

(* A kernel in which no cell has run: no global name, no execution. The   *)
(* interpreter is the one the notebook's metadata names.                   *)
KernelIdle == [python |-> "3.11", globals |-> {}, executed |-> <<>>]

(* The blended-portfolio cell before it runs. *)
BlendIdle == [pc |-> "idle"]

Init ==
    /\ df = EmptyFrame
    /\ outcome = "none"
    /\ results = NoResults
    /\ relation = "fresh"
    /\ prev_df = EmptyFrame
    /\ prev_results = NoResults
    /\ base_df = EmptyFrame
    /\ base_results = NoResults
    /\ call_df = [i \in 1..NumCalls |-> EmptyFrame]
    /\ call_pc = [i \in 1..NumCalls |-> "idle"]
    /\ call_locals = [i \in 1..NumCalls |-> NoResults]
    /\ call_outcome = [i \in 1..NumCalls |-> "none"]
    /\ call_results = [i \in 1..NumCalls |-> NoResults]
    /\ rolling = RollingIdle
    /\ kernel = KernelIdle
    /\ blend = BlendIdle

(* The caller adds one asset class to the table it is building. *)
AppendRow ==
    /\ outcome = "none"
    /\ relation = "fresh"
    /\ Len(df.index) < MaxLen
    /\ \E wp \in WeightValues, rp \in ReturnValues,
          wb \in WeightValues, rb \in ReturnValues :
          df' = [index |-> Append(df.index, "S" \o ToString(Len(df.index) + 1)),
                 w_p |-> Append(df.w_p, wp), r_p |-> Append(df.r_p, rp),
                 w_b |-> Append(df.w_b, wb), r_b |-> Append(df.r_b, rb)]
    /\ UNCHANGED <<outcome, results, relation, prev_df, prev_results>>
    /\ UNCHANGED baseVars
    /\ UNCHANGED callVars
    /\ UNCHANGED sideVars

(* The example cell builds df_brinson from the literal data. *)
LoadExample ==
    /\ outcome = "none"
    /\ relation = "fresh"
    /\ df = EmptyFrame
    /\ df' = df_brinson
    /\ UNCHANGED <<outcome, results, relation, prev_df, prev_results>>
    /\ UNCHANGED baseVars
    /\ UNCHANGED callVars
    /\ UNCHANGED sideVars

(* results = brinson_decomposition(df) *)
Decompose ==
    /\ outcome = "none"
    /\ LET call == brinson_decomposition(df)
       IN  /\ outcome' = call.kind
           /\ results' = IF call.kind = "return" THEN call.value ELSE NoResults
    /\ df' = df_after_call(df)
    /\ UNCHANGED <<relation, prev_df, prev_results>>
    /\ UNCHANGED baseVars
    /\ UNCHANGED callVars
    /\ UNCHANGED sideVars

(* After a call, the caller builds the role-swapped table for a second call. *)
SwapRoles ==
    /\ outcome = "return"
    /\ relation = "fresh"
    /\ prev_df' = df
    /\ prev_results' = results
    /\ df' = SwapFrame(df)
    /\ outcome' = "none"
    /\ results' = NoResults
    /\ relation' = "swapped"
    /\ UNCHANGED baseVars
    /\ UNCHANGED callVars
    /\ UNCHANGED sideVars

Next == AppendRow \/ LoadExample \/ Decompose \/ SwapRoles

Spec == Init /\ [][Next]_vars

(* ---------------- calls that are compared with each other ---------------- *)

(* The table d with one more row. *)
WithRow(d, id, wp, rp, wb, rb) ==
    [index |-> Append(d.index, id),
     w_p |-> Append(d.w_p, wp), r_p |-> Append(d.r_p, rp),
     w_b |-> Append(d.w_b, wb), r_b |-> Append(d.r_b, rb)]

(* The caller adds one asset class with a label of its own. *)
AppendSegment ==
    /\ outcome = "none"
    /\ relation = "fresh"
    /\ Len(df.index) < MaxRelLen
    /\ \E wp \in RelWeightValues, rp \in ReturnValues,
          wb \in RelWeightValues, rb \in ReturnValues :
          df' = WithRow(df, "S" \o ToString(Len(df.index) + 1), wp, rp, wb, rb)
    /\ UNCHANGED <<outcome, results, relation, prev_df, prev_results>>
    /\ UNCHANGED baseVars
    /\ UNCHANGED callVars
    /\ UNCHANGED sideVars

(* The caller adds a row whose label repeats the label of an earlier row:  *)
(* set_index does not check the labels for uniqueness.                     *)
AppendDuplicate ==
    /\ outcome = "none"
    /\ relation \in {"fresh", "duplicates"}
    /\ Len(df.index) >= 1
    /\ Len(df.index) < MaxRelLen
    /\ \E j \in 1..Len(df.index) :
       \E wp \in RelWeightValues, rp \in ReturnValues,
          wb \in RelWeightValues, rb \in ReturnValues :
          df' = WithRow(df, df.index[j], wp, rp, wb, rb)
    /\ relation' = "duplicates"
    /\ UNCHANGED <<outcome, results, prev_df, prev_results>>
    /\ UNCHANGED baseVars
    /\ UNCHANGED callVars
    /\ UNCHANGED sideVars

(* The caller adds an asset class one of whose four numbers is NaN:        *)
(* nothing between the data dict and the call checks for finiteness.       *)
AppendNaNRow ==
    /\ outcome = "none"
    /\ relation \in {"fresh", "nan"}
    /\ Len(df.index) < MaxRelLen
    /\ \E wp \in RelWeightValues, rp \in ReturnValues,
          wb \in RelWeightValues, rb \in ReturnValues :
       \E c \in {"w_p", "r_p", "w_b", "r_b"} :
          df' = WithRow(df, "S" \o ToString(Len(df.index) + 1),
                        IF c = "w_p" THEN NaN ELSE wp, IF c = "r_p" THEN NaN ELSE rp,
                        IF c = "w_b" THEN NaN ELSE wb, IF c = "r_b" THEN NaN ELSE rb)
    /\ relation' = "nan"
    /\ UNCHANGED <<outcome, results, prev_df, prev_results>>
    /\ UNCHANGED baseVars
    /\ UNCHANGED callVars
    /\ UNCHANGED sideVars

(* The table d with the weights of every row multiplied by k. *)
ScaleFrame(d, k) ==
    [d EXCEPT !.w_p = [i \in 1..Len(d.w_p) |-> k * d.w_p[i]],
              !.w_b = [i \in 1..Len(d.w_b) |-> k * d.w_b[i]]]

(* The name of the relation "weights scaled by k". *)
ScaledBy(k) == "scaled by " \o ToString(k)

(* After a call, the caller builds the table with all weights scaled by a  *)
(* constant, returns unchanged, for a second call.                         *)
ScaleWeights ==
    /\ outcome = "return"
    /\ relation = "fresh"
    /\ Len(df.index) >= 1
    /\ \E k \in ScaleFactors :
          /\ df' = ScaleFrame(df, k)
          /\ relation' = ScaledBy(k)
    /\ prev_df' = df
    /\ prev_results' = results
    /\ outcome' = "none"
    /\ results' = NoResults
    /\ UNCHANGED baseVars
    /\ UNCHANGED callVars
    /\ UNCHANGED sideVars

(* After a call, the caller builds a table with the same segments and      *)
(* returns and a second weight assignment, for a second call.              *)
AddendTable ==
    /\ outcome = "return"
    /\ relation = "fresh"
    /\ Len(df.index) >= 1
    /\ \E w \in [1..Len(df.index) -> AddendWeights] :
          df' = [df EXCEPT !.w_p = [i \in 1..Len(df.w_p) |-> w[i][1]],
                           !.w_b = [i \in 1..Len(df.w_b) |-> w[i][2]]]
    /\ base_df' = df
    /\ base_results' = results
    /\ relation' = "addend"
    /\ outcome' = "none"
    /\ results' = NoResults
    /\ UNCHANGED <<prev_df, prev_results>>
    /\ UNCHANGED callVars
    /\ UNCHANGED sideVars

(* After the two calls, the caller builds the table whose weights are the  *)
(* sums of the two weight assignments, for a third call.                   *)
SumTable ==
    /\ outcome = "return"
    /\ relation = "addend"
    /\ df' = [df EXCEPT !.w_p = [i \in 1..Len(df.w_p) |-> base_df.w_p[i] + df.w_p[i]],
                        !.w_b = [i \in 1..Len(df.w_b) |-> base_df.w_b[i] + df.w_b[i]]]
    /\ prev_df' = df
    /\ prev_results' = results
    /\ relation' = "sum"
    /\ outcome' = "none"
    /\ results' = NoResults
    /\ UNCHANGED baseVars
    /\ UNCHANGED callVars
    /\ UNCHANGED sideVars

(* The orders in which n rows can be listed. *)
Orders(n) == {o \in [1..n -> 1..n] : \A i, j \in 1..n : i # j => o[i] # o[j]}

(* The table d with its rows listed in the order o. *)
ReorderFrame(d, o) ==
    LET Col(c) == [i \in 1..Len(c) |-> c[o[i]]]
    IN  [index |-> Col(d.index), w_p |-> Col(d.w_p), r_p |-> Col(d.r_p),
         w_b |-> Col(d.w_b), r_b |-> Col(d.r_b)]

(* After a call, the caller lists the same segments in another order for a *)
(* second call.                                                            *)
ReorderRows ==
    /\ outcome = "return"
    /\ relation = "fresh"
    /\ \E o \in Orders(Len(df.index)) :
          /\ ReorderFrame(df, o) # df
          /\ df' = ReorderFrame(df, o)
    /\ prev_df' = df
    /\ prev_results' = results
    /\ relation' = "reordered"
    /\ outcome' = "none"
    /\ results' = NoResults
    /\ UNCHANGED baseVars
    /\ UNCHANGED callVars
    /\ UNCHANGED sideVars

(* The table d with c added to every portfolio and benchmark return. *)
ShiftFrame(d, c) ==
    [d EXCEPT !.r_p = [i \in 1..Len(d.r_p) |-> d.r_p[i] + c],
              !.r_b = [i \in 1..Len(d.r_b) |-> d.r_b[i] + c]]

(* The name of the relation "returns shifted by c". *)
ShiftedBy(c) == "shifted by " \o ToString(c)

(* After a call, the caller builds the table with the same constant added  *)
(* to all returns, weights unchanged, for a second call.                   *)
ShiftReturns ==
    /\ outcome = "return"
    /\ relation = "fresh"
    /\ Len(df.index) >= 1
    /\ \E c \in ShiftConstants :
          /\ df' = ShiftFrame(df, c)
          /\ relation' = ShiftedBy(c)
    /\ prev_df' = df
    /\ prev_results' = results
    /\ outcome' = "none"
    /\ results' = NoResults
    /\ UNCHANGED baseVars
    /\ UNCHANGED callVars
    /\ UNCHANGED sideVars

NextRel ==
    \/ AppendSegment \/ AppendDuplicate \/ AppendNaNRow \/ Decompose
    \/ ScaleWeights \/ AddendTable \/ SumTable \/ ReorderRows \/ ShiftReturns

SpecRel == Init /\ [][NextRel]_vars

(* ---------------- calls side by side, statement by statement ---------------- *)

(* The statements of the function body, in source order. *)
Statements ==
    <<"r_p", "r_b", "asset_allocation", "selection", "interaction",
      "total_diff", "return">>

(* The position of a statement in the body; past the end once the call is over. *)
Rank(st) ==
    IF \E k \in 1..Len(Statements) : Statements[k] = st
    THEN CHOOSE k \in 1..Len(Statements) : Statements[k] = st
    ELSE Len(Statements) + 1

(* Control that goes back to the first statement after total_diff. *)
NextStatement_looping(st) ==
    IF st = "total_diff" THEN "r_p"
    ELSE IF st = "return" THEN "done" ELSE Statements[Rank(st) + 1]

(* Straight-line code: control passes to the following statement, and the  *)
(* return statement ends the call.                                         *)
NextStatement(st) == IF st = "return" THEN "done" ELSE Statements[Rank(st) + 1]

(* r_p, r_b, ... kept in names that all calls share, as module globals are. *)
FrameOf_shared(i) == 1

(* r_p, r_b, asset_allocation, selection, interaction and total_diff are   *)
(* local names of the function: each call has a frame of its own.          *)
FrameOf(i) == i

(* A table built from a data dict that has no 'r_b' entry. *)
df_without_r_b ==
    [index |-> <<"Equity", "Bond">>, w_p |-> <<6, 4>>, r_p |-> <<10, 2>>,
     w_b |-> <<5, 5>>]

(* The tables the calls that run side by side are given. *)
CallTables == {df_brinson, SwapFrame(df_brinson), EmptyFrame, df_without_r_b}

(* NumCalls calls are about to run their first statement, each on a table of its own. *)
InitCalls ==
    /\ df = EmptyFrame
    /\ outcome = "none"
    /\ results = NoResults
    /\ relation = "fresh"
    /\ prev_df = EmptyFrame
    /\ prev_results = NoResults
    /\ base_df = EmptyFrame
    /\ base_results = NoResults
    /\ call_df \in [1..NumCalls -> CallTables]
    /\ call_pc = [i \in 1..NumCalls |-> Statements[1]]
    /\ call_locals = [i \in 1..NumCalls |-> NoResults]
    /\ call_outcome = [i \in 1..NumCalls |-> "none"]
    /\ call_results = [i \in 1..NumCalls |-> NoResults]
    /\ rolling = RollingIdle
    /\ kernel = KernelIdle
    /\ blend = BlendIdle

(* The local names of call i. *)
Locals(i) == call_locals[FrameOf(i)]

(* Call i runs the assignment `name = value`, whose right-hand side reads  *)
(* the given columns of the call's table: a missing column raises KeyError *)
(* and ends the call, otherwise the local name is bound.                   *)
Assign(i, name, columns, value) ==
    /\ call_pc[i] = name
    /\ IF columns \subseteq DOMAIN call_df[i]
       THEN /\ call_locals' = [call_locals EXCEPT ![FrameOf(i)] = (name :> value) @@ @]
            /\ call_pc' = [call_pc EXCEPT ![i] = NextStatement(name)]
            /\ UNCHANGED call_outcome
       ELSE /\ call_pc' = [call_pc EXCEPT ![i] = "done"]
            /\ call_outcome' = [call_outcome EXCEPT ![i] = "KeyError"]
            /\ UNCHANGED call_locals
    /\ UNCHANGED <<call_df, call_results>>
    /\ UNCHANGED cellVars
    /\ UNCHANGED sideVars

AssignRp(i) == Assign(i, "r_p", {"w_p", "r_p"}, r_p(call_df[i]))

AssignRb(i) == Assign(i, "r_b", {"w_b", "r_b"}, r_b(call_df[i]))

AssignAssetAllocation(i) ==
    Assign(i, "asset_allocation", {"w_p", "w_b", "r_b"}, asset_allocation(call_df[i]))

AssignSelection(i) ==
    Assign(i, "selection", {"w_b", "r_p", "r_b"}, selection(call_df[i]))

AssignInteraction(i) ==
    Assign(i, "interaction", {"w_p", "w_b", "r_p", "r_b"}, interaction(call_df[i]))

AssignTotalDiff(i) ==
    Assign(i, "total_diff", {}, total_diff(Locals(i)["r_p"], Locals(i)["r_b"]))

(* Call i runs its return statement: the dict is built from the six locals *)
(* and handed to the caller in one piece.                                  *)
Return(i) ==
    /\ call_pc[i] = "return"
    /\ call_results' =
           [call_results EXCEPT ![i] =
               return_dict(Locals(i)["r_p"], Locals(i)["r_b"],
                           Locals(i)["asset_allocation"], Locals(i)["selection"],
                           Locals(i)["interaction"], Locals(i)["total_diff"])]
    /\ call_outcome' = [call_outcome EXCEPT ![i] = "return"]
    /\ call_pc' = [call_pc EXCEPT ![i] = NextStatement("return")]
    /\ UNCHANGED <<call_df, call_locals>>
    /\ UNCHANGED cellVars
    /\ UNCHANGED sideVars

(* Call i runs its next statement. *)
Step(i) ==
    \/ AssignRp(i) \/ AssignRb(i) \/ AssignAssetAllocation(i) \/ AssignSelection(i)
    \/ AssignInteraction(i) \/ AssignTotalDiff(i) \/ Return(i)

NextCalls == \E i \in 1..NumCalls : Step(i)

SpecCalls == InitCalls /\ [][NextCalls]_vars

(* Every call that has a statement left to run eventually runs it. *)
FairSpecCalls == SpecCalls /\ \A i \in 1..NumCalls : WF_vars(Step(i))

(* ---------------- reference: per-segment formulas ---------------- *)

(* The SegmentRecord of row i of a table. *)
SegmentRecord(d, i) ==
    [segment_id |-> d.index[i], w_p |-> d.w_p[i], r_p |-> d.r_p[i],
     w_b |-> d.w_b[i], r_b |-> d.r_b[i]]

(* The contribution of one segment to each field. *)
PortfolioTerm(s) == s.w_p * s.r_p
BenchmarkTerm(s) == s.w_b * s.r_b
AllocationTerm(s) == (s.w_p - s.w_b) * s.r_b
SelectionTerm(s) == s.w_b * (s.r_p - s.r_b)
InteractionTerm(s) == (s.w_p - s.w_b) * (s.r_p - s.r_b)

(* The sum of Term over the first n segments of a table. *)
RECURSIVE Sigma(_, _, _)
Sigma(Term(_), d, n) ==
    IF n = 0 THEN 0 ELSE Sigma(Term, d, n - 1) + Term(SegmentRecord(d, n))

NumSegments(d) == Len(d.index)

(* A call on the current table has returned. *)
HasReturned == outcome = "return"

(* A call on the current table has ended, by a return or by an exception. *)
CallEnded == outcome # "none"

(* ---------------- claims ---------------- *)

(* C1: additivity.  For every non-empty table, whatever its weights, the   *)
(* result satisfies Asset Allocation + Selection + Interaction =           *)
(* Total Difference, exactly.                                              *)
C1_Additivity ==
    (HasReturned /\ NumSegments(df) > 0) =>
        results["Asset Allocation"] + results["Selection"] + results["Interaction"]
            = results["Total Difference"]

(* C1 witness: a returned call on a table whose weights do not sum to 1,   *)
(* with a weight outside [0,1] and a non-zero interaction.                 *)
C1_Witness ==
    /\ HasReturned
    /\ NumSegments(df) = 2
    /\ SeriesSum(df.w_p) # FixedPoint.weight
    /\ \E i \in 1..NumSegments(df) : df.w_b[i] < 0
    /\ results["Interaction"] # 0
    /\ results["Total Difference"] # 0

(* C2: the three effect fields equal the per-segment reference sums        *)
(* sum (w_p - w_b) r_b, sum w_b (r_p - r_b), sum (w_p - w_b)(r_p - r_b).   *)
C2_EffectsAreReferenceSums ==
    HasReturned =>
        /\ results["Asset Allocation"] = Sigma(AllocationTerm, df, NumSegments(df))
        /\ results["Selection"] = Sigma(SelectionTerm, df, NumSegments(df))
        /\ results["Interaction"] = Sigma(InteractionTerm, df, NumSegments(df))

(* C2 witness: a returned call on two segments where the three effects are *)
(* non-zero and pairwise different.                                        *)
C2_Witness ==
    /\ HasReturned
    /\ NumSegments(df) = 2
    /\ results["Asset Allocation"] # 0
    /\ results["Selection"] # 0
    /\ results["Interaction"] # 0
    /\ results["Asset Allocation"] # results["Selection"]
    /\ results["Selection"] # results["Interaction"]
    /\ results["Asset Allocation"] # results["Interaction"]

(* C3: Portfolio Return = sum w_p r_p, Benchmark Return = sum w_b r_b, and *)
(* Total Difference is the difference of those two fields.                 *)
C3_ReturnsAndTotalDifference ==
    HasReturned =>
        /\ results["Portfolio Return"] = Sigma(PortfolioTerm, df, NumSegments(df))
        /\ results["Benchmark Return"] = Sigma(BenchmarkTerm, df, NumSegments(df))
        /\ results["Total Difference"]
               = results["Portfolio Return"] - results["Benchmark Return"]

(* C3 witness: a returned call on two segments with different, non-zero    *)
(* portfolio and benchmark returns.                                        *)
C3_Witness ==
    /\ HasReturned
    /\ NumSegments(df) = 2
    /\ results["Portfolio Return"] # 0
    /\ results["Benchmark Return"] # 0
    /\ results["Total Difference"] # 0

(* The call of the example cell has returned. *)
ExampleDecomposed == HasReturned /\ df = df_brinson

(* C4 as stated: on the example table the result is 0.074, 0.059, 0.006,   *)
(* 0.008, 0.001 and 0.015 (in thousandths).                                *)
C4_Original ==
    ExampleDecomposed =>
        results = return_dict(74, 59, 6, 8, 1, 15)

(* C4 amended: on the example table the result is Portfolio Return 0.074,  *)
(* Benchmark Return 0.059, Asset Allocation 0.005, Selection 0.007,        *)
(* Interaction 0.003 and Total Difference 0.015.                           *)
C4_LiteralScenario ==
    ExampleDecomposed =>
        results = return_dict(74, 59, 5, 7, 3, 15)

(* C4 witness: the example cell has run its call. *)
C4_Witness == ExampleDecomposed /\ relation = "fresh"

(* C5: a call on an empty table fails with InvalidInput and leaves no      *)
(* result; it does not return the all-zero result.                         *)
C5_EmptyInputFails ==
    (CallEnded /\ NumSegments(df) = 0) =>
        outcome = "InvalidInput" /\ results = NoResults

(* Both calls of a role swap have returned: prev_df and its swap df. *)
SwapDecomposed == relation = "swapped" /\ HasReturned

(* C6: swapping portfolio and benchmark negates Total Difference and       *)
(* leaves Interaction unchanged.                                           *)
C6_SwapTotalAndInteraction ==
    SwapDecomposed =>
        /\ results["Total Difference"] = -prev_results["Total Difference"]
        /\ results["Interaction"] = prev_results["Interaction"]

(* C6 witness: a swap of two segments with non-zero Total Difference and   *)
(* Interaction, both calls returned.                                       *)
C6_Witness ==
    /\ SwapDecomposed
    /\ NumSegments(df) = 2
    /\ df = SwapFrame(prev_df)
    /\ prev_results["Total Difference"] # 0
    /\ prev_results["Interaction"] # 0

(* C7 as stated: swapping portfolio and benchmark negates Asset Allocation *)
(* and negates Selection.                                                  *)
C7_Original ==
    SwapDecomposed =>
        /\ results["Asset Allocation"] = -prev_results["Asset Allocation"]
        /\ results["Selection"] = -prev_results["Selection"]

(* C7 amended: swapping portfolio and benchmark negates Asset Allocation   *)
(* exactly when Interaction is 0, and negates Selection exactly when       *)
(* Interaction is 0.                                                       *)
C7_SwapNegatesIffNoInteraction ==
    SwapDecomposed =>
        /\ (results["Asset Allocation"] = -prev_results["Asset Allocation"])
               <=> (prev_results["Interaction"] = 0)
        /\ (results["Selection"] = -prev_results["Selection"])
               <=> (prev_results["Interaction"] = 0)

(* C7 witness: a swap, both calls returned, where Interaction is 0 while   *)
(* weights and returns both differ in some segment, so that the negation   *)
(* of a non-zero Asset Allocation and Selection happens.                   *)
C7_Witness ==
    /\ SwapDecomposed
    /\ df = SwapFrame(prev_df)
    /\ prev_results["Interaction"] = 0
    /\ prev_results["Asset Allocation"] # 0
    /\ prev_results["Selection"] # 0
    /\ \E i \in 1..NumSegments(df) : df.w_p[i] # df.w_b[i] /\ df.r_p[i] # df.r_b[i]

(* Every segment has the same weight and the same return in portfolio and benchmark. *)
ZeroDifference(d) ==
    \A i \in 1..NumSegments(d) : d.w_p[i] = d.w_b[i] /\ d.r_p[i] = d.r_b[i]

(* C8: if portfolio and benchmark agree in every segment of a non-empty    *)
(* table, the three effects and Total Difference are all 0.                *)
C8_ZeroDifference ==
    (HasReturned /\ NumSegments(df) > 0 /\ ZeroDifference(df)) =>
        /\ results["Asset Allocation"] = 0
        /\ results["Selection"] = 0
        /\ results["Interaction"] = 0
        /\ results["Total Difference"] = 0

(* C8 witness: a returned call on two agreeing segments with a non-zero    *)
(* portfolio return.                                                       *)
C8_Witness ==
    /\ HasReturned
    /\ NumSegments(df) = 2
    /\ ZeroDifference(df)
    /\ results["Portfolio Return"] # 0

(* One segment, held at full weight by portfolio and benchmark. *)
SingleFullWeight(d) ==
    /\ NumSegments(d) = 1
    /\ d.w_p[1] = FixedPoint.weight
    /\ d.w_b[1] = FixedPoint.weight

(* C9: for one segment with w_p = w_b = 1, Asset Allocation = 0,           *)
(* Interaction = 0 and Selection = r_p - r_b (Selection counts             *)
(* thousandths and the returns hundredths, so the factor is weight 1.0).   *)
C9_SingleSegment ==
    (HasReturned /\ SingleFullWeight(df)) =>
        /\ results["Asset Allocation"] = 0
        /\ results["Interaction"] = 0
        /\ results["Selection"] = FixedPoint.weight * (df.r_p[1] - df.r_b[1])

(* C9 witness: a returned call on one full-weight segment whose returns differ. *)
C9_Witness ==
    /\ HasReturned
    /\ SingleFullWeight(df)
    /\ df.r_p[1] # df.r_b[1]
    /\ df.r_b[1] # 0

(* Some weight is negative or above 1, or a weight column does not sum to 1. *)
WeightsInvalid(d) ==
    \/ \E i \in 1..NumSegments(d) :
           \/ d.w_p[i] < 0 \/ d.w_p[i] > FixedPoint.weight
           \/ d.w_b[i] < 0 \/ d.w_b[i] > FixedPoint.weight
    \/ Sigma(LAMBDA s : s.w_p, d, NumSegments(d)) # FixedPoint.weight
    \/ Sigma(LAMBDA s : s.w_b, d, NumSegments(d)) # FixedPoint.weight

(* The result the formulas give for a table. *)
ReferenceResult(d) ==
    return_dict(Sigma(PortfolioTerm, d, NumSegments(d)),
                Sigma(BenchmarkTerm, d, NumSegments(d)),
                Sigma(AllocationTerm, d, NumSegments(d)),
                Sigma(SelectionTerm, d, NumSegments(d)),
                Sigma(InteractionTerm, d, NumSegments(d)),
                Sigma(PortfolioTerm, d, NumSegments(d))
                    - Sigma(BenchmarkTerm, d, NumSegments(d)))

(* C10: a call on a non-empty table whose weights are negative, above 1 or *)
(* do not sum to 1 raises nothing and returns the formulas' result for the *)
(* weights as given.                                                       *)
C10_NoWeightValidation ==
    (CallEnded /\ NumSegments(df) > 0 /\ WeightsInvalid(df)) =>
        /\ outcome = "return"
        /\ results = ReferenceResult(df)

(* C10 witness: a call has ended on a table with a negative portfolio      *)
(* weight, a benchmark weight above 1 and column sums different from 1.    *)
C10_Witness ==
    /\ CallEnded
    /\ NumSegments(df) = 2
    /\ \E i \in 1..2 : df.w_p[i] < 0
    /\ \E i \in 1..2 : df.w_b[i] > FixedPoint.weight
    /\ SeriesSum(df.w_p) # FixedPoint.weight
    /\ SeriesSum(df.w_b) # FixedPoint.weight
    /\ relation = "fresh"

(* Two rows of the table carry the same segment label. *)
HasDuplicates(d) ==
    \E i, j \in 1..NumSegments(d) : i # j /\ d.index[i] = d.index[j]

(* C11: a call on a table in which two or more rows carry the same segment *)
(* label raises nothing and merges nothing: every field is the sum of the  *)
(* contributions of all rows, the repeated ones included.                  *)
C11_DuplicatesAreSummed ==
    (CallEnded /\ HasDuplicates(df)) =>
        /\ outcome = "return"
        /\ \A k \in ResultKeys : results[k] = ReferenceResult(df)[k]

(* C11 witness: a call has ended on two rows with one label and different  *)
(* values, where dropping the second row would change the result.          *)
C11_Witness ==
    /\ CallEnded
    /\ NumSegments(df) = 2
    /\ df.index[1] = df.index[2]
    /\ df.w_p[1] # df.w_p[2]
    /\ df.r_p[1] # df.r_p[2]
    /\ ReferenceResult(df) # ReferenceResult(DropDuplicates(df))

(* Some weight or return of the table is NaN. *)
HasNaN(d) ==
    \E i \in 1..NumSegments(d) :
        d.w_p[i] = NaN \/ d.r_p[i] = NaN \/ d.w_b[i] = NaN \/ d.r_b[i] = NaN

(* The rows of a table in which none of the named columns holds a NaN. *)
RowsWithNumbers(d, columns) ==
    LET keep == SelectSeq([i \in 1..NumSegments(d) |-> i],
                          LAMBDA i : \A c \in columns : d[c][i] # NaN)
        Col(c) == [k \in 1..Len(keep) |-> c[keep[k]]]
    IN  [index |-> Col(d.index), w_p |-> Col(d.w_p), r_p |-> Col(d.r_p),
         w_b |-> Col(d.w_b), r_b |-> Col(d.r_b)]

(* The sum of Term over the rows in which the columns Term reads hold numbers. *)
SigmaOfNumbers(Term(_), d, columns) ==
    Sigma(Term, RowsWithNumbers(d, columns), NumSegments(RowsWithNumbers(d, columns)))

(* C12 as stated: a call on a table that holds a NaN raises nothing and    *)
(* every field of the result is NaN.                                       *)
C12_Original ==
    (CallEnded /\ HasNaN(df)) =>
        /\ outcome = "return"
        /\ \A k \in ResultKeys : results[k] = NaN

(* C12 amended: a call on a table that holds a NaN raises nothing, and no  *)
(* field of the result is NaN: each of the five sums leaves out the rows   *)
(* whose term is NaN, and Total Difference is Portfolio Return minus       *)
(* Benchmark Return.                                                       *)
C12_NaNIsSkipped ==
    (CallEnded /\ HasNaN(df)) =>
        /\ outcome = "return"
        /\ \A k \in ResultKeys : results[k] # NaN
        /\ results["Portfolio Return"]
               = SigmaOfNumbers(PortfolioTerm, df, {"w_p", "r_p"})
        /\ results["Benchmark Return"]
               = SigmaOfNumbers(BenchmarkTerm, df, {"w_b", "r_b"})
        /\ results["Asset Allocation"]
               = SigmaOfNumbers(AllocationTerm, df, {"w_p", "w_b", "r_b"})
        /\ results["Selection"]
               = SigmaOfNumbers(SelectionTerm, df, {"w_b", "r_p", "r_b"})
        /\ results["Interaction"]
               = SigmaOfNumbers(InteractionTerm, df, {"w_p", "r_p", "w_b", "r_b"})
        /\ results["Total Difference"]
               = results["Portfolio Return"] - results["Benchmark Return"]

(* C12 witness: a call has ended on a table with a NaN portfolio weight in *)
(* one row and numbers in another, and the fields are non-zero numbers.    *)
C12_Witness ==
    /\ CallEnded
    /\ NumSegments(df) = 2
    /\ \E i \in 1..2 : df.w_p[i] = NaN
    /\ \E i \in 1..2 : df.w_p[i] # NaN /\ df.r_p[i] # NaN /\ df.w_b[i] # NaN /\ df.r_b[i] # NaN
    /\ results["Portfolio Return"] # 0
    /\ results["Interaction"] # 0

(* A step in which a call runs from its first statement to its end. *)
CallStep == outcome = "none" /\ outcome' # "none"

(* C13: a call leaves its input table unchanged, row for row and cell for  *)
(* cell, and changes nothing but `results`: the tables and results of the  *)
(* earlier calls stay as they were.                                        *)
C13_Purity ==
    [][CallStep =>
          /\ df' = df
          /\ relation' = relation
          /\ prev_df' = prev_df /\ prev_results' = prev_results
          /\ base_df' = base_df /\ base_results' = base_results]_vars

(* C13 witness: the second call of a role swap has returned on a table of  *)
(* two rows with different portfolio and benchmark weights, so that the    *)
(* earlier call's table and result are there to be left alone.             *)
C13_Witness ==
    /\ relation = "swapped"
    /\ HasReturned
    /\ NumSegments(df) = 2
    /\ df.w_p # df.w_b
    /\ prev_results # NoResults
    /\ prev_results # results

(* Call i is over, by its return statement or by an exception. *)
CallOver(i) == call_pc[i] = "done"

(* C14: whatever the interleaving of the statements of the calls, each     *)
(* call ends as it would alone on its own table: same outcome, same dict.  *)
C14_IndependentCalls ==
    \A i \in 1..NumCalls :
        CallOver(i) =>
            /\ call_outcome[i] = brinson_decomposition(call_df[i]).kind
            /\ call_results[i] = brinson_decomposition(call_df[i]).value

(* C14 witness: two calls on tables with different results are both over,  *)
(* each with its own result.                                               *)
C14_Witness ==
    /\ CallOver(1) /\ CallOver(2)
    /\ call_df[1] = df_brinson
    /\ call_df[2] = SwapFrame(df_brinson)
    /\ call_outcome[1] = "return" /\ call_outcome[2] = "return"
    /\ call_results[1] # call_results[2]

(* C15: at every moment a call either has handed over a dict with all six  *)
(* keys, by its return statement, or has handed over nothing at all: while *)
(* it runs, and when it ends by an exception, there is no result, and no   *)
(* dict with only some of the keys is ever exposed.                        *)
C15_NoPartialResults ==
    \A i \in 1..NumCalls :
        /\ call_outcome[i] \in {"none", "return", "KeyError"}
        /\ CallOver(i) <=> call_outcome[i] # "none"
        /\ \/ call_outcome[i] = "return" /\ DOMAIN call_results[i] = ResultKeys
           \/ call_outcome[i] # "return" /\ call_results[i] = NoResults

(* C15 witness: one call has returned its six fields and another, given a  *)
(* table without the r_b column, has failed after computing r_p, with no   *)
(* result.                                                                 *)
C15_Witness ==
    /\ call_outcome[1] = "return"
    /\ DOMAIN call_results[1] = ResultKeys
    /\ call_outcome[2] = "KeyError"
    /\ "r_p" \in DOMAIN call_locals[2]
    /\ call_results[2] = NoResults

(* Every call is over. *)
AllCallsOver == \A i \in 1..NumCalls : CallOver(i)

(* C16: every call eventually ends, by a return or by an exception, and    *)
(* control only moves forward through the seven statements, so that each   *)
(* statement runs at most once and each segment is read by at most the     *)
(* five sums.                                                              *)
C16_Termination ==
    /\ <>AllCallsOver
    /\ [][\A i \in 1..NumCalls :
              call_pc'[i] # call_pc[i] => Rank(call_pc'[i]) > Rank(call_pc[i])]_vars

(* C16 witness: all calls are over, one of them on the three-segment table *)
(* after running all seven statements.                                     *)
C16_Witness ==
    /\ AllCallsOver
    /\ \E i \in 1..NumCalls :
          /\ call_df[i] = df_brinson
          /\ DOMAIN call_locals[i] =
                 {"r_p", "r_b", "asset_allocation", "selection", "interaction", "total_diff"}
          /\ call_outcome[i] = "return"

(* C17: with the returns fixed, scaling all weights by k scales each of    *)
(* the six fields by k, and the result for the sum of two weight           *)
(* assignments is the field-by-field sum of their results.                 *)
C17_LinearInWeights ==
    /\ \A k \in ScaleFactors :
           (relation = ScaledBy(k) /\ HasReturned) =>
               \A f \in ResultKeys : results[f] = k * prev_results[f]
    /\ (relation = "sum" /\ HasReturned) =>
           \A f \in ResultKeys : results[f] = base_results[f] + prev_results[f]

(* C17 witness, scaling: the call on the weights scaled by 3 has returned, *)
(* with non-zero fields.                                                   *)
C17_WitnessScaled ==
    /\ relation = ScaledBy(3)
    /\ HasReturned
    /\ NumSegments(df) = 2
    /\ df = ScaleFrame(prev_df, 3)
    /\ \A f \in ResultKeys : prev_results[f] # 0

(* C17 witness: the three calls of a sum have returned, on two segments,   *)
(* the weights of the third table being the sums of the other two, with    *)
(* non-zero effects in both summands.                                      *)
C17_Witness ==
    /\ relation = "sum"
    /\ HasReturned
    /\ NumSegments(df) = 2
    /\ df.r_p = base_df.r_p /\ df.r_b = base_df.r_b
    /\ \A i \in 1..2 : df.w_p[i] = base_df.w_p[i] + prev_df.w_p[i]
    /\ \A i \in 1..2 : df.w_b[i] = base_df.w_b[i] + prev_df.w_b[i]
    /\ \A f \in ResultKeys : base_results[f] # 0 /\ prev_results[f] # 0

(* C18: for the role-swapped table, Asset Allocation is                    *)
(* -(Asset Allocation + Interaction) and Selection is                      *)
(* -(Selection + Interaction) of the unswapped result.                     *)
C18_RoleSwapIdentity ==
    SwapDecomposed =>
        /\ results["Asset Allocation"]
               = -(prev_results["Asset Allocation"] + prev_results["Interaction"])
        /\ results["Selection"]
               = -(prev_results["Selection"] + prev_results["Interaction"])

(* C18 witness: both calls of a swap have returned and the unswapped       *)
(* Interaction, Asset Allocation and Selection are non-zero.               *)
C18_Witness ==
    /\ SwapDecomposed
    /\ NumSegments(df) = 2
    /\ prev_results["Interaction"] # 0
    /\ prev_results["Asset Allocation"] # 0
    /\ prev_results["Selection"] # 0
    /\ results["Asset Allocation"] # -prev_results["Asset Allocation"]

(* C19: the call on the same segments listed in another order returns the  *)
(* same six fields.                                                        *)
C19_OrderIndependence ==
    (relation = "reordered" /\ HasReturned) => results = prev_results

(* C19 witness: the call on a reordered table of two different segments    *)
(* has returned, with contributions that differ between the segments.      *)
C19_Witness ==
    /\ relation = "reordered"
    /\ HasReturned
    /\ NumSegments(df) = 2
    /\ df # prev_df
    /\ df.index = <<prev_df.index[2], prev_df.index[1]>>
    /\ PortfolioTerm(SegmentRecord(df, 1)) # PortfolioTerm(SegmentRecord(df, 2))
    /\ InteractionTerm(SegmentRecord(df, 1)) # InteractionTerm(SegmentRecord(df, 2))

(* Every segment has the same weight in portfolio and benchmark. *)
EqualWeights(d) == \A i \in 1..NumSegments(d) : d.w_p[i] = d.w_b[i]

(* C20: if portfolio and benchmark weights agree in every segment, then    *)
(* Asset Allocation = 0, Interaction = 0 and Total Difference = Selection. *)
C20_EqualWeights ==
    (HasReturned /\ EqualWeights(df)) =>
        /\ results["Asset Allocation"] = 0
        /\ results["Interaction"] = 0
        /\ results["Total Difference"] = results["Selection"]

(* C20 witness: a returned call on two segments with equal weights and     *)
(* different returns, where Selection is not 0.                            *)
C20_Witness ==
    /\ HasReturned
    /\ NumSegments(df) = 2
    /\ EqualWeights(df)
    /\ \E i \in 1..2 : df.r_p[i] # df.r_b[i]
    /\ results["Selection"] # 0

(* Every segment has the same return in portfolio and benchmark. *)
EqualReturns(d) == \A i \in 1..NumSegments(d) : d.r_p[i] = d.r_b[i]

(* C21: if portfolio and benchmark returns agree in every segment, then    *)
(* Selection = 0, Interaction = 0 and Total Difference = Asset Allocation. *)
C21_EqualReturns ==
    (HasReturned /\ EqualReturns(df)) =>
        /\ results["Selection"] = 0
        /\ results["Interaction"] = 0
        /\ results["Total Difference"] = results["Asset Allocation"]

(* C21 witness: a returned call on two segments with equal returns and     *)
(* different weights, where Asset Allocation is not 0.                     *)
C21_Witness ==
    /\ HasReturned
    /\ NumSegments(df) = 2
    /\ EqualReturns(df)
    /\ \E i \in 1..2 : df.w_p[i] # df.w_b[i]
    /\ results["Asset Allocation"] # 0
    /\ results["Benchmark Return"] # 0

(* Sum of the portfolio weights minus sum of the benchmark weights, in tenths. *)
WeightSumGap(d) ==
    Sigma(LAMBDA s : s.w_p, d, NumSegments(d)) - Sigma(LAMBDA s : s.w_b, d, NumSegments(d))

(* C22: adding a constant c to every return leaves Asset Allocation,       *)
(* Selection, Interaction and Total Difference unchanged when the two      *)
(* weight sums are equal; when they differ, Asset Allocation and Total     *)
(* Difference each change by c times (sum w_p - sum w_b).                  *)
C22_ReturnShift ==
    \A c \in ShiftConstants :
        (relation = ShiftedBy(c) /\ HasReturned) =>
            /\ WeightSumGap(prev_df) = 0 =>
                   \A f \in {"Asset Allocation", "Selection", "Interaction",
                             "Total Difference"} : results[f] = prev_results[f]
            /\ WeightSumGap(prev_df) # 0 =>
                   /\ results["Asset Allocation"]
                          = prev_results["Asset Allocation"] + c * WeightSumGap(prev_df)
                   /\ results["Total Difference"]
                          = prev_results["Total Difference"] + c * WeightSumGap(prev_df)

(* C22 witness, equal sums: the call on the shifted table has returned for *)
(* two segments with different weights whose sums agree, with non-zero     *)
(* effects.                                                                *)
C22_WitnessEqualSums ==
    /\ relation = ShiftedBy(4)
    /\ HasReturned
    /\ NumSegments(df) = 2
    /\ df = ShiftFrame(prev_df, 4)
    /\ WeightSumGap(prev_df) = 0
    /\ df.w_p # df.w_b
    /\ prev_results["Asset Allocation"] # 0
    /\ prev_results["Selection"] # 0
    /\ prev_results["Portfolio Return"] # results["Portfolio Return"]

(* C22 witness: the call on the shifted table has returned for two         *)
(* segments whose weight sums differ, and Asset Allocation and Total       *)
(* Difference have moved.                                                  *)
C22_Witness ==
    /\ relation = ShiftedBy(-3)
    /\ HasReturned
    /\ NumSegments(df) = 2
    /\ df = ShiftFrame(prev_df, -3)
    /\ WeightSumGap(prev_df) # 0
    /\ results["Asset Allocation"] # prev_results["Asset Allocation"]
    /\ results["Total Difference"] # prev_results["Total Difference"]
    /\ prev_results["Interaction"] # 0

(* ---------------- the rolling CAPM loop ---------------- *)

(* The rolling window, in observations (one trading year). *)
window == 252

(* How many observations beyond one window the checked series may hold. *)
MaxExtra == 3

(* The lengths of excess_portfolio that are checked: from the empty series *)
(* to a series of one window and MaxExtra observations.                    *)
SeriesLengths == 0..(window + MaxExtra)

Min(a, b) == IF a <= b THEN a ELSE b

(* len(range(stop)): range(stop) is 0, 1, .., stop - 1 and is empty for a  *)
(* stop that is zero or negative.                                          *)
range_len(stop) == IF stop > 0 THEN stop ELSE 0

(* The stop of a loop that also fits the latest window. *)
loop_stop_with_latest_window(n) == n - window + 1

(* The stop of the loop's range: len(excess_portfolio) - window. *)
loop_stop(n) == n - window

(* series.iloc[start:end] for 0 <= start <= end on a series of n           *)
(* observations: the positions lo .. hi - 1, the slice clipped to the      *)
(* series. Observations are named by their position, 0 .. n - 1.           *)
iloc(n, start, end) == [lo |-> Min(start, n), hi |-> Min(end, n)]

(* excess_portfolio.index[window:]: the dates of the observations at       *)
(* positions window .. n - 1, in order; the date of the observation at     *)
(* position p is written p.                                                *)
index_from(n, from) ==
    [j \in 1..range_len(n - from) |-> from + j - 1]

(* sm.OLS(y_window, X_w).fit().params[name]: the estimate is kept as the   *)
(* parameter's name and the observations the regression was fitted on.     *)
params(name, y_window, x_window) ==
    [param |-> name, y |-> y_window, x |-> x_window]

(* pd.Series(values, index=index): raises ValueError when the lengths      *)
(* differ, else pairs the values with the index labels in order.           *)
Series(values, index) ==
    IF Len(values) # Len(index)
    THEN Raised("ValueError")
    ELSE Returned([j \in 1..Len(values) |->
                      [date |-> index[j], value |-> values[j]]])

(* The cell starts on a series of any checked length with empty lists. *)
InitRolling ==
    /\ df = EmptyFrame
    /\ outcome = "none"
    /\ results = NoResults
    /\ relation = "fresh"
    /\ prev_df = EmptyFrame
    /\ prev_results = NoResults
    /\ base_df = EmptyFrame
    /\ base_results = NoResults
    /\ call_df = [i \in 1..NumCalls |-> EmptyFrame]
    /\ call_pc = [i \in 1..NumCalls |-> "idle"]
    /\ call_locals = [i \in 1..NumCalls |-> NoResults]
    /\ call_outcome = [i \in 1..NumCalls |-> "none"]
    /\ call_results = [i \in 1..NumCalls |-> NoResults]
    /\ \E n \in SeriesLengths :
           rolling = [RollingIdle EXCEPT !.n = n, !.pc = "loop"]
    /\ kernel = KernelIdle
    /\ blend = BlendIdle

(* One iteration of the for loop: the next start_idx of the range, both    *)
(* windows, the fit, and the two appends.                                  *)
LoopIteration ==
    /\ rolling.pc = "loop"
    /\ rolling.start_idx < range_len(loop_stop(rolling.n))
    /\ LET start_idx == rolling.start_idx
           end_idx == start_idx + window
           y_window == iloc(rolling.n, start_idx, end_idx)
           x_window == iloc(rolling.n, start_idx, end_idx)
       IN  rolling' =
               [rolling EXCEPT
                   !.start_idx = start_idx + 1,
                   !.rolling_alphas =
                       Append(@, params("const", y_window, x_window)),
                   !.rolling_betas =
                       Append(@, params("^GSPC", y_window, x_window))]
    /\ UNCHANGED <<kernel, blend>>
    /\ UNCHANGED cellVars
    /\ UNCHANGED callVars

(* The range is exhausted: the two series are built on index[window:].     *)
(* The first constructor that raises ends the cell.                        *)
BuildSeries ==
    /\ rolling.pc = "loop"
    /\ rolling.start_idx >= range_len(loop_stop(rolling.n))
    /\ LET index == index_from(rolling.n, window)
           alphas == Series(rolling.rolling_alphas, index)
           betas == Series(rolling.rolling_betas, index)
       IN  rolling' =
               IF alphas.kind # "return"
               THEN [rolling EXCEPT !.pc = alphas.kind]
               ELSE IF betas.kind # "return"
               THEN [rolling EXCEPT !.pc = betas.kind,
                                    !.rolling_alphas_series = alphas.value]
               ELSE [rolling EXCEPT !.pc = "done",
                                    !.rolling_alphas_series = alphas.value,
                                    !.rolling_betas_series = betas.value]
    /\ UNCHANGED <<kernel, blend>>
    /\ UNCHANGED cellVars
    /\ UNCHANGED callVars

NextRolling == LoopIteration \/ BuildSeries

SpecRolling == InitRolling /\ [][NextRolling]_vars

(* The cell has left the loop, with or without an exception. *)
RollingOver == rolling.pc \notin {"idle", "loop"}

(* C23: for a series of N observations the rolling loop ends without an    *)
(* exception with exactly max(0, N - window) alpha and beta estimates,     *)
(* as many as index[window:] has dates; the k-th estimate (from 0) is      *)
(* fitted on observations k .. k + window - 1 and labelled with the date   *)
(* of observation k + window, so on observations strictly earlier than     *)
(* its label; no estimate is fitted on the latest window                   *)
(* N - window .. N - 1.                                                    *)
C23_RollingEstimates ==
    RollingOver =>
        LET N == rolling.n
            count == IF N - window > 0 THEN N - window ELSE 0
        IN  /\ rolling.pc = "done"
            /\ Len(rolling.rolling_alphas) = count
            /\ Len(rolling.rolling_betas) = count
            /\ Len(rolling.rolling_alphas_series) = Len(index_from(N, window))
            /\ Len(rolling.rolling_betas_series) = Len(index_from(N, window))
            /\ \A k \in 0..(count - 1) :
                   LET alpha == rolling.rolling_alphas_series[k + 1]
                       beta == rolling.rolling_betas_series[k + 1]
                   IN  /\ alpha.value = rolling.rolling_alphas[k + 1]
                       /\ beta.value = rolling.rolling_betas[k + 1]
                       /\ alpha.value.param = "const"
                       /\ beta.value.param = "^GSPC"
                       /\ \A e \in {alpha, beta} :
                              /\ e.value.y = [lo |-> k, hi |-> k + window]
                              /\ e.value.x = [lo |-> k, hi |-> k + window]
                              /\ e.date = k + window
                              /\ e.value.y.hi - 1 < e.date
                              /\ e.value.y.lo # N - window

(* C23 witness: the cell has ended on a series of window + 3 observations  *)
(* with three estimates, the last fitted on observations 2 .. window + 1   *)
(* and labelled with the date of observation window + 2.                   *)
C23_Witness ==
    /\ rolling.pc = "done"
    /\ rolling.n = window + 3
    /\ Len(rolling.rolling_betas_series) = 3
    /\ rolling.rolling_betas_series[3].date = window + 2
    /\ rolling.rolling_betas_series[3].value.y = [lo |-> 2, hi |-> window + 2]

(* ---------------- the diversification notebook ---------------- *)

(* How many cell executions of one kernel session are followed. *)
MaxRuns == 6

(* The code cells, numbered top to bottom. *)
CellIds == 1..6

(* The frame of a cell's top-level code, as a traceback names it. *)
ModuleFrame == "<module>"

(* The global names an expression looks up, in evaluation order, each with *)
(* the frame that does the lookup. Builtins (range, len, print, zip),      *)
(* parameters and locals are always bound and are left out.                *)
Load(names, frame) ==
    [k \in 1..Len(names) |-> [name |-> names[k], frame |-> frame]]

(* A statement: its global lookups in order, then the globals it binds. *)
Statement(loads, stores) == [loads |-> loads, stores |-> stores]

(* import .. as name / def name(...): binds the name, looks nothing up. *)
Bind(name) == Statement(<<>>, {name})

(* An expression statement: lookups only. *)
Expr(names) == Statement(Load(names, ModuleFrame), {})

(* The interpreters a kernel may run: the notebook's own (3.11), where a   *)
(* list comprehension is a function of its own, and the first that inlines *)
(* comprehensions into the enclosing code (3.12).                          *)
PythonVersions == {"3.11", "3.12"}

(* The frame that evaluates the element expression of a top-level list     *)
(* comprehension.                                                          *)
comprehension_frame(python) ==
    IF python = "3.11" THEN "<listcomp>" ELSE ModuleFrame

(* f(args) evaluated in a frame: f, then the arguments, looked up in that  *)
(* frame, then the lookups of the body of f in the frame of f.             *)
Call(frame, f, args, body) == Load(<<f>> \o args, frame) \o Load(body, f)

(* The global lookups of get_stock_data: pd.DataFrame(), yf.download. *)
get_stock_data == <<"pd", "yf">>

(* The global lookups of calculate_portfolio_metrics: np only. *)
calculate_portfolio_metrics == <<"np">>

(* The global lookups of plot_correlation_matrix: plt, then sns. *)
plot_correlation_matrix == <<"plt", "sns">>

(* The global lookups of compare_individual_vs_portfolio: individual_risks *)
(* is a local of this function.                                            *)
compare_individual_vs_portfolio == <<"np", "plt">>

(* A body that computes the total risk from its argument. *)
analyze_risk_components_with_local_risks ==
    <<"yf", "pd", "np", "plt", "np", "plt">>

(* The global lookups of analyze_risk_components: yf.download, pd.DataFrame,*)
(* np.polyfit, the first plot, then individual_risks (not bound in the     *)
(* function, so a global), then the second plot.                           *)
analyze_risk_components ==
    <<"yf", "pd", "np", "plt", "individual_risks", "plt">>

(* Cell 1: the five imports. *)
imports_cell ==
    <<Bind("np"), Bind("pd"), Bind("yf"), Bind("plt"), Bind("sns")>>

(* Cell 2: tickers, get_stock_data, returns_df. *)
returns_cell ==
    <<Bind("tickers"),
      Bind("get_stock_data"),
      Statement(Call(ModuleFrame, "get_stock_data",
                     <<"tickers">>, get_stock_data),
                {"returns_df"})>>

(* Cell 3: calculate_portfolio_metrics, the risk of portfolios of every    *)
(* size, and their plot. The comprehension evaluates its iterable at top   *)
(* level first, then the call in the comprehension's frame.                *)
portfolio_risks_cell(python) ==
    <<Bind("calculate_portfolio_metrics"),
      Statement(Load(<<"tickers">>, ModuleFrame), {"num_stocks_range"}),
      Statement(Load(<<"num_stocks_range">>, ModuleFrame)
                    \o Call(comprehension_frame(python),
                            "calculate_portfolio_metrics", <<"returns_df">>,
                            calculate_portfolio_metrics),
                {"portfolio_risks"}),
      Expr(<<"plt">>),
      Expr(<<"plt", "num_stocks_range", "portfolio_risks">>),
      Expr(<<"plt">>), Expr(<<"plt">>), Expr(<<"plt">>), Expr(<<"plt">>),
      Expr(<<"plt">>)>>

(* Cell 4: plot_correlation_matrix and corr_matrix. *)
corr_matrix_cell ==
    <<Bind("plot_correlation_matrix"),
      Statement(Call(ModuleFrame, "plot_correlation_matrix",
                     <<"returns_df">>,
                     plot_correlation_matrix),
                {"corr_matrix"})>>

(* Cell 5, 'Compare risks': compare_individual_vs_portfolio, the global    *)
(* individual_risks and portfolio_risk, and the printed table, whose       *)
(* top-level for loop binds its targets ticker and risk as globals         *)
(* (returns_df has the tickers as columns, so the loop body runs).         *)
compare_risks_cell ==
    <<Bind("compare_individual_vs_portfolio"),
      Statement(Call(ModuleFrame, "compare_individual_vs_portfolio",
                     <<"returns_df">>,
                     compare_individual_vs_portfolio),
                {"individual_risks", "portfolio_risk"}),
      Expr(<<"portfolio_risk">>),
      Expr(<<>>),
      Statement(Load(<<"returns_df", "individual_risks">>, ModuleFrame),
                {"ticker", "risk"})>>

(* Cell 6: analyze_risk_components and risk_components. *)
risk_components_cell ==
    <<Bind("analyze_risk_components"),
      Statement(Call(ModuleFrame, "analyze_risk_components",
                     <<"returns_df">>,
                     analyze_risk_components),
                {"risk_components"})>>

Cells(python) ==
    <<imports_cell, returns_cell, portfolio_risks_cell(python),
      corr_matrix_cell,
      compare_risks_cell, risk_components_cell>>

(* The position of the first lookup of an unbound name, 0 if every name is *)
(* bound.                                                                  *)
FirstUnbound(loads, globals) ==
    LET unbound == {k \in DOMAIN loads : loads[k].name \notin globals}
    IN  IF unbound = {} THEN 0
        ELSE CHOOSE k \in unbound : \A j \in unbound : k <= j

(* Running the statements from the i-th on: a lookup of an unbound name    *)
(* raises NameError and ends the cell, keeping what earlier statements     *)
(* bound; a statement whose lookups succeed binds its names.               *)
RECURSIVE Exec(_, _, _)
Exec(statements, i, globals) ==
    IF i > Len(statements)
    THEN [globals |-> globals, error |-> "none", name |-> "", frame |-> ""]
    ELSE LET k == FirstUnbound(statements[i].loads, globals)
         IN  IF k # 0
             THEN [globals |-> globals, error |-> "NameError",
                   name |-> statements[i].loads[k].name,
                   frame |-> statements[i].loads[k].frame]
             ELSE Exec(statements, i + 1, globals \cup statements[i].stores)

(* A fresh kernel of either interpreter: no global is bound and no cell    *)
(* has run.                                                                *)
InitNotebook ==
    /\ df = EmptyFrame
    /\ outcome = "none"
    /\ results = NoResults
    /\ relation = "fresh"
    /\ prev_df = EmptyFrame
    /\ prev_results = NoResults
    /\ base_df = EmptyFrame
    /\ base_results = NoResults
    /\ call_df = [i \in 1..NumCalls |-> EmptyFrame]
    /\ call_pc = [i \in 1..NumCalls |-> "idle"]
    /\ call_locals = [i \in 1..NumCalls |-> NoResults]
    /\ call_outcome = [i \in 1..NumCalls |-> "none"]
    /\ call_results = [i \in 1..NumCalls |-> NoResults]
    /\ rolling = RollingIdle
    /\ \E python \in PythonVersions :
           kernel = [KernelIdle EXCEPT !.python = python]
    /\ blend = BlendIdle

(* The user runs cell c, whichever cells ran before. *)
RunCell(c) ==
    /\ Len(kernel.executed) < MaxRuns
    /\ LET run == Exec(Cells(kernel.python)[c], 1, kernel.globals)
       IN  kernel' =
               [python |-> kernel.python,
                globals |-> run.globals,
                executed |-> Append(kernel.executed,
                                    [cell |-> c, error |-> run.error,
                                     name |-> run.name, frame |-> run.frame])]
    /\ UNCHANGED <<rolling, blend>>
    /\ UNCHANGED cellVars
    /\ UNCHANGED callVars

NextNotebook == \E c \in CellIds : RunCell(c)

SpecNotebook == InitNotebook /\ [][NextNotebook]_vars

(* Cell c has run to its end among the first j - 1 executions. *)
RanBefore(c, j) ==
    \E i \in 1..(j - 1) :
        /\ kernel.executed[i].cell = c
        /\ kernel.executed[i].error = "none"

(* The cells have run top to bottom so far, each once. *)
TopToBottom ==
    /\ Len(kernel.executed) <= Len(Cells(kernel.python))
    /\ \A i \in 1..Len(kernel.executed) : kernel.executed[i].cell = i

(* The j-th execution called analyze_risk_components: it is a run of cell  *)
(* 6 that returned or raised in the function's frame.                      *)
CalledAnalyze(j) ==
    /\ kernel.executed[j].cell = 6
    /\ \/ kernel.executed[j].error = "none"
       \/ kernel.executed[j].frame = "analyze_risk_components"

(* C24: the global individual_risks is bound exactly when the 'Compare     *)
(* risks' cell has run to its end; when the cells run top to bottom no     *)
(* cell raises, the global is bound before analyze_risk_components is      *)
(* called and the call returns risk_components; and every call of          *)
(* analyze_risk_components made when the 'Compare risks' cell has not run  *)
(* raises NameError on individual_risks and binds no risk_components,      *)
(* while every call made after it returns.                                 *)
C24_CellOrder ==
    LET runs == kernel.executed
    IN  /\ "individual_risks" \in kernel.globals
               <=> RanBefore(5, Len(runs) + 1)
        /\ TopToBottom =>
               /\ \A i \in 1..Len(runs) : runs[i].error = "none"
               /\ Len(runs) = 6 =>
                      /\ RanBefore(5, 6)
                      /\ CalledAnalyze(6)
                      /\ "risk_components" \in kernel.globals
        /\ \A j \in 1..Len(runs) :
               CalledAnalyze(j) =>
                   IF RanBefore(5, j)
                   THEN runs[j].error = "none"
                   ELSE /\ runs[j].error = "NameError"
                        /\ runs[j].name = "individual_risks"
                        /\ runs[j].frame = "analyze_risk_components"
        /\ "risk_components" \in kernel.globals
               => /\ RanBefore(5, Len(runs) + 1)
                  /\ RanBefore(6, Len(runs) + 1)

(* C24 witness, top to bottom: the six cells have run in order, none       *)
(* raised, and risk_components is bound.                                   *)
C24_WitnessTopToBottom ==
    /\ TopToBottom
    /\ Len(kernel.executed) = 6
    /\ CalledAnalyze(6)
    /\ kernel.executed[6].error = "none"
    /\ "risk_components" \in kernel.globals

(* C24 witness: after cells 1 and 2, cell 6 called analyze_risk_components *)
(* before the 'Compare risks' cell and raised NameError on                 *)
(* individual_risks; then cell 5 ran and cell 6, run again, returned       *)
(* risk_components.                                                        *)
C24_Witness ==
    /\ Len(kernel.executed) = 5
    /\ [i \in 1..5 |-> kernel.executed[i].cell] = <<1, 2, 6, 5, 6>>
    /\ CalledAnalyze(3)
    /\ kernel.executed[3].error = "NameError"
    /\ kernel.executed[3].name = "individual_risks"
    /\ kernel.executed[4].error = "none"
    /\ CalledAnalyze(5)
    /\ kernel.executed[5].error = "none"
    /\ "risk_components" \in kernel.globals

(* ---------------- the blended portfolio ---------------- *)

(* The largest standard deviation that is checked, in hundredths. *)
MaxSigma == 14

Abs(a) == IF a < 0 THEN -a ELSE a

RECURSIVE Gcd(_, _)
Gcd(a, b) == IF b = 0 THEN a ELSE Gcd(b, a % b)

(* The exact number num / den (den # 0), in lowest terms with a positive   *)
(* denominator, so that equal numbers are equal records.                   *)
Frac(num, den) ==
    LET g == Gcd(Abs(num), Abs(den))
        sign == IF den < 0 THEN -1 ELSE 1
    IN  [num |-> sign * (num \div g), den |-> Abs(den) \div g]

FracAdd(a, b) == Frac(a.num * b.den + b.num * a.den, a.den * b.den)

FracSub(a, b) == Frac(a.num * b.den - b.num * a.den, a.den * b.den)

FracMul(a, b) == Frac(a.num * b.num, a.den * b.den)

(* a / b for b # 0. *)
FracDiv(a, b) == Frac(a.num * b.den, a.den * b.num)

(* The literal 1 of w_rf = 1 - w_B. *)
One == Frac(1, 1)

(* A decimal literal with two places: 0.14 is Hundredths(14). *)
Hundredths(h) == Frac(h, 100)

(* R_f = 0.02 and R_pB = 0.14. *)
R_f == Hundredths(2)

R_pB == Hundredths(14)

(* The standard deviations that are checked: 0.00 .. MaxSigma / 100, which *)
(* hold the cell's sigmaA = 0.10 and sigmaB = 0.14.                        *)
SigmaValues == {Hundredths(h) : h \in 0..MaxSigma}

(* w_B = sigmaA / sigmaB *)
w_B(sigmaA, sigmaB) == FracDiv(sigmaA, sigmaB)

(* w_rf = 1 - w_B *)
w_rf(wB) == FracSub(One, wB)

(* R_blended = w_B * R_pB + w_rf * R_f *)
R_blended(wB, wrf) == FracAdd(FracMul(wB, R_pB), FracMul(wrf, R_f))

(* A blend whose deviation weighs sigmaB by the squared weight. *)
sigma_blended_with_squared_weight(wB, sigmaB) ==
    FracMul(FracMul(wB, wB), sigmaB)

(* sigma_blended = w_B * sigmaB *)
sigma_blended(wB, sigmaB) == FracMul(wB, sigmaB)

(* The first cell has bound sigmaA and sigmaB; the blended-portfolio cell  *)
(* has not run.                                                            *)
InitBlend ==
    /\ df = EmptyFrame
    /\ outcome = "none"
    /\ results = NoResults
    /\ relation = "fresh"
    /\ prev_df = EmptyFrame
    /\ prev_results = NoResults
    /\ base_df = EmptyFrame
    /\ base_results = NoResults
    /\ call_df = [i \in 1..NumCalls |-> EmptyFrame]
    /\ call_pc = [i \in 1..NumCalls |-> "idle"]
    /\ call_locals = [i \in 1..NumCalls |-> NoResults]
    /\ call_outcome = [i \in 1..NumCalls |-> "none"]
    /\ call_results = [i \in 1..NumCalls |-> NoResults]
    /\ rolling = RollingIdle
    /\ kernel = KernelIdle
    /\ \E sigmaA \in SigmaValues, sigmaB \in SigmaValues :
           blend = [pc |-> "ready", sigmaA |-> sigmaA, sigmaB |-> sigmaB]

(* The blended-portfolio cell: the division raises ZeroDivisionError for   *)
(* sigmaB = 0 and nothing is bound; otherwise the four names are bound in  *)
(* order.                                                                  *)
BlendCell ==
    /\ blend.pc = "ready"
    /\ blend' =
           IF blend.sigmaB.num = 0
           THEN [blend EXCEPT !.pc = "ZeroDivisionError"]
           ELSE LET wB == w_B(blend.sigmaA, blend.sigmaB)
                    wrf == w_rf(wB)
                IN  [pc |-> "done",
                     sigmaA |-> blend.sigmaA,
                     sigmaB |-> blend.sigmaB,
                     w_B |-> wB,
                     w_rf |-> wrf,
                     R_blended |-> R_blended(wB, wrf),
                     sigma_blended |-> sigma_blended(wB, blend.sigmaB)]
    /\ UNCHANGED <<rolling, kernel>>
    /\ UNCHANGED cellVars
    /\ UNCHANGED callVars

NextBlend == BlendCell

SpecBlend == InitBlend /\ [][NextBlend]_vars

(* C25: whenever sigmaB is not zero the blended-portfolio cell completes,  *)
(* and then, in exact arithmetic, w_B and w_rf sum to 1 and the blended    *)
(* standard deviation w_B * sigmaB equals sigmaA.                          *)
C25_BlendMatchesSigmaA ==
    /\ (blend.pc \notin {"idle", "ready"} /\ blend.sigmaB # Hundredths(0))
           => blend.pc = "done"
    /\ blend.pc = "done" =>
           /\ blend.sigmaB # Hundredths(0)
           /\ blend.w_B = FracDiv(blend.sigmaA, blend.sigmaB)
           /\ FracAdd(blend.w_B, blend.w_rf) = One
           /\ blend.sigma_blended = FracMul(blend.w_B, blend.sigmaB)
           /\ blend.sigma_blended = blend.sigmaA

(* C25 witness: the cell has run on the notebook's own values, sigmaA =    *)
(* 0.10 and sigmaB = 0.14: w_B = 5/7, w_rf = 2/7, blended sigma 0.10.      *)
C25_Witness ==
    /\ blend.pc = "done"
    /\ blend.sigmaA = Hundredths(10)
    /\ blend.sigmaB = Hundredths(14)
    /\ blend.w_B = Frac(5, 7)
    /\ blend.w_rf = Frac(2, 7)
    /\ blend.sigma_blended = Frac(1, 10)
    /\ blend.R_blended = FracAdd(Frac(10, 100), Frac(4, 700))

====
